---- MODULE Spec2Model ----
(***************************************************************************)
(* State-machine model of demo_api.py: the request gateway (make_request), *)
(* the async operation poller (poll_until_complete), the template upload   *)
(* handshake (upload_template), deck generation (generate_deck) and the    *)
(* download helper (download_file).                                        *)
(*                                                                         *)
(* The program is single threaded.  One top-level call is made per         *)
(* behaviour; `op` names it and `pc` is the position inside it.  The       *)
(* remote service and the local file system are the environment: the       *)
(* response to each request is drawn from Responses in the step that       *)
(* issues the request.  Time only advances while the program sleeps        *)
(* (requests are instantaneous).                                           *)
(*                                                                         *)
(* Python values: a dict is a function from keys to values; a str is a     *)
(* sequence of tokens (<<>> is the empty string); None is the value None.  *)
(***************************************************************************)
EXTENDS Integers, Sequences, FiniteSets, TLC

\* ------------------------------------------------------------------ bounds
\* Largest max_attempts / check_interval argument of a direct poller call.
MaxAttemptsArg == 3
MaxIntervalArg == 2

\* Number of top-level calls made one after the other (specification SpecCalls).
MaxCalls == 2

\* --------------------------------------------------------- program values
\* poll_until_complete(endpoint, check_interval: int = 3, max_attempts: int = 60)
DefaultCheckInterval == 3
DefaultMaxAttempts == 60

None == <<"<None>">>

BASE_URL == <<"https://powerpoint-api-gateway-36twek8d.uc.gateway.dev/api/v1">>
API_KEY == <<"replace_with_your_api_key">>

\* HEADERS = {"X-API-Key": API_KEY, "Content-Type": "application/json"}
HEADERS == [XAPIKey |-> API_KEY, ContentType |-> <<"application/json">>]

PPTX_CONTENT_TYPE ==
    <<"application/vnd.openxmlformats-officedocument.presentationml.presentation">>

\* ------------------------------------------------------- python primitives
\* dict.get(key, default)
Get(d, key, default) == IF key \in DOMAIN d THEN d[key] ELSE default

\* truth value of an optional string: None and "" are falsy
Truthy(s) == s # None /\ s # <<>>

\* str.startswith("http")
StartsWithHttp(s) == Len(s) >= 1 /\ s[1] = "http"

\* f-string / concatenation of strings
Concat(a, b) == a \o b

\* --------------------------------------------------------- remote service
\* HTTP status codes the environment answers with.
Codes == {200, 404, 503}

\* Marks the absence of a value (no result yet, or a function returning None).
NoValue == [none |-> TRUE]

TerminalStates == {"completed", "partial", "failed"}

\* Status payloads a status endpoint can answer with: non-terminal ones with
\* and without progress/current_step, one without any status field, and
\* terminal ones with and without the result fields.
NonTerminalPayloads ==
    { [status |-> "processing"],
      [status |-> "processing", progress |-> 50],
      [status |-> "pending", current_step |-> "Queued"],
      [status |-> "rendering", progress |-> 50, current_step |-> "Rendering"],
      [status |-> "Completed"],
      [status |-> "error", progress |-> 50] }

GoodSlideResult == [status |-> "completed", slide_index |-> 0, pages_generated |-> 1]
BadSlideResult == [status |-> "failed", slide_index |-> 0]

TerminalShapes(s) ==
    { [status |-> s],
      [status |-> s, download_url |-> <<"http", "s://x/y.pptx">>],
      [status |-> s, total_pages_generated |-> 1],
      [status |-> s, total_pages_generated |-> 1,
       download_url |-> <<"http", "s://x/y.pptx">>],
      [status |-> s, total_pages_generated |-> 1, download_url |-> <<"gen_1">>],
      [status |-> s, total_pages_generated |-> 1, download_url |-> <<>>],
      [status |-> s, total_pages_generated |-> 1,
       slide_results |-> <<GoodSlideResult>>,
       download_url |-> <<"http", "s://x/y.pptx">>],
      [status |-> s, total_pages_generated |-> 1,
       slide_results |-> <<GoodSlideResult, BadSlideResult>>] }

TerminalPayloads == UNION { TerminalShapes(s) : s \in TerminalStates }

StatuslessPayloads == { [progress |-> 50] }

StatusPayloads == NonTerminalPayloads \cup TerminalPayloads \cup StatuslessPayloads

\* Answers to POST /templates: with and without the two fields the client reads.
CreatePayloads ==
    { [template_id |-> <<"tmpl_1">>, upload_url |-> <<"http", "s://storage/u1">>],
      [template_id |-> <<"tmpl_1">>],
      [upload_url |-> <<"http", "s://storage/u1">>] }

\* Answers to POST /templates/{id}/upload/confirm.
ConfirmPayloads == { [status |-> "uploaded"] }

\* Answers to POST /presentations/generate-deck.
DeckInitPayloads == { [generation_id |-> <<"gen_1">>], [generation_id |-> <<"gen_2">>], [message |-> "accepted"] }

\* Answers to POST /templates/{id}/analysis.
AnalysisStartPayloads == { [status |-> "processing"] }

\* Answers to GET /templates/{id}/analysis: status, and results.slides when done.
AnalysisPayloads ==
    NonTerminalPayloads \cup StatuslessPayloads
    \cup UNION { { [status |-> s],
                    [status |-> s, results |-> [layouts |-> <<>>]],
                    [status |-> s,
                     results |-> [slides |-> <<[slideId |-> <<"slide_1">>,
                                                slideNumber |-> 1]>>]] }
                  : s \in TerminalStates }

\* Answers to POST /presentations/generate.
SinglePayloads ==
    { [status |-> "completed"],
      [status |-> "completed", pages_generated |-> 1,
       download_url |-> <<"http", "s://x/y.pptx">>],
      [status |-> "completed", pages_generated |-> 1, download_url |-> <<"gen_1">>] }

\* Bodies of a download: the chunks iter_content yields, in order; a chunk is
\* a sequence of bytes.
DownloadPayloads == { [chunks |-> <<>>], [chunks |-> << <<"d1">>, <<"d2", "d3">> >>] }

\* The local template file: its path and its bytes.
TemplatePath == <<"template_v3.pptx">>
TemplateBytes == <<"b1", "b2", "b3">>

\* What the network gives back for one request: a transport failure, or an
\* HTTP response with a status code and a body that is JSON or not.
TransportFailure == [kind |-> "transport", code |-> 0, isJson |-> FALSE, body |-> NoValue]

HttpResponses(bodies) ==
    [kind : {"http"}, code : Codes, isJson : {TRUE}, body : bodies]
    \cup [kind : {"http"}, code : Codes, isJson : {FALSE}, body : {NoValue}]

Responses(bodies) == {TransportFailure} \cup HttpResponses(bodies)

\* Answers to a download request: a binary body that arrives in chunks.
DownloadResponses ==
    {TransportFailure}
    \cup [kind : {"http"}, code : Codes, isJson : {FALSE}, body : DownloadPayloads]

\* ------------------------------------------------------------- outcomes
Pending == [kind |-> "none", exc |-> "", code |-> 0, value |-> NoValue]
Return(v) == [kind |-> "return", exc |-> "", code |-> 0, value |-> v]
Raise(e, c) == [kind |-> "raise", exc |-> e, code |-> c, value |-> NoValue]

\* ---------------------------------------------------------- make_request
\* Mutant: only server errors (5xx) raise.
RaiseForStatus_ServerOnly(code) == 500 <= code /\ code < 600

\* response.raise_for_status(): raises for 4xx and 5xx
RaiseForStatus(code) == 400 <= code /\ code < 600

\* Mutant: the HTTP status is not checked; an error answer's body is returned.
MakeRequestResult_IgnoreStatus(resp, stream) ==
    IF resp.kind = "transport" THEN Raise("ConnectionError", 0)
    ELSE IF stream THEN Return([response |-> resp])
    ELSE IF ~resp.isJson THEN Raise("JSONDecodeError", resp.code)
    ELSE Return(resp.body)

\* What make_request does with the response `resp`.
MakeRequestResult(resp, stream) ==
    IF resp.kind = "transport" THEN Raise("ConnectionError", 0)
    ELSE IF RaiseForStatus(resp.code) THEN Raise("HTTPError", resp.code)
    ELSE IF stream THEN Return([response |-> resp])
    ELSE IF ~resp.isJson THEN Raise("JSONDecodeError", resp.code)
    ELSE Return(resp.body)

\* ------------------------------------------------------------------ state
VARIABLES
    op,            \* the top-level function called ("none" before the call)
    pc,            \* position inside the call
    endpoint,      \* poll_until_complete: endpoint
    check_interval,\* poll_until_complete: check_interval
    max_attempts,  \* poll_until_complete: max_attempts
    attempt,       \* poll_until_complete: iterations of the for loop started
    sleepLeft,     \* seconds left of the running time.sleep
    now,           \* seconds elapsed since the call started
    requests,      \* every HTTP request issued, in order
    sleeps,        \* number of time.sleep calls
    slept,         \* total seconds slept
    printed,       \* [count, line]: progress lines printed, and the last one
    lastResp,      \* response to the last request issued
    lastError,     \* outcome of the last request that failed
    polls,         \* status responses received so far, counted by PollClass
    result,        \* the value returned by the poller to its caller
    args,          \* the other arguments of the top-level call
    init_response, \* upload_template / generate_deck: init_response
    steps,         \* steps of the call that have completed, in order
    openFiles,     \* local file handles that are open
    opened,        \* number of open() calls that succeeded
    outFile,       \* the output file: whether it exists, and its content
    download,      \* download_file: [url, chunks, next]
    config,        \* the module globals API_KEY, BASE_URL and HEADERS
    stored,        \* remote storage: the object a successful PUT left there
    calls,         \* number of top-level calls that have ended and returned
    earlier,       \* how the previous top-level call ended: [kind, exc]
    demo,          \* the run_..._demo function that is running ("none" outside one)
    journal,       \* the calls the running demo has completed, in order
    outcome        \* how the top-level call ended

pollVars == <<endpoint, check_interval, max_attempts, attempt, sleepLeft,
              sleeps, slept, printed, polls, result>>
fileVars == <<openFiles, opened, outFile, download>>
envVars == <<config, stored, calls, earlier, demo, journal>>
vars == <<op, pc, endpoint, check_interval, max_attempts, attempt, sleepLeft, now,
          requests, sleeps, slept, printed, lastResp, lastError, polls, result,
          args, init_response, steps, openFiles, opened, outFile, download,
          config, stored, calls, earlier, demo, journal, outcome>>

NoPrint == [count |-> 0, line |-> <<0, "">>]

NoArgs == [none |-> TRUE]
NoFile == [exists |-> FALSE, data |-> <<>>]
NoDownload == [url |-> None, chunks |-> <<>>, next |-> 1]

NoObject == [url |-> None, data |-> <<>>]

\* The module globals as the import of the script leaves them.
InitialConfig == [API_KEY |-> API_KEY, BASE_URL |-> BASE_URL, HEADERS |-> HEADERS]

NoPolls == [nonterminal |-> 0, terminal |-> 0, error |-> 0, nostatus |-> 0]

Init ==
    /\ op = "none"
    /\ pc = "idle"
    /\ endpoint = <<>>
    /\ check_interval = 0
    /\ max_attempts = 0
    /\ attempt = 0
    /\ sleepLeft = 0
    /\ now = 0
    /\ requests = <<>>
    /\ sleeps = 0
    /\ slept = 0
    /\ printed = NoPrint
    /\ lastResp = TransportFailure
    /\ lastError = Pending
    /\ polls = NoPolls
    /\ result = NoValue
    /\ args = NoArgs
    /\ init_response = NoValue
    /\ steps = <<>>
    /\ openFiles = {}
    /\ opened = 0
    /\ outFile = NoFile
    /\ download = NoDownload
    /\ config = InitialConfig
    /\ stored = NoObject
    /\ calls = 0
    /\ earlier = [kind |-> "none", exc |-> ""]
    /\ demo = "none"
    /\ journal = <<>>
    /\ outcome = Pending

\* Mutant: a streamed request is sent without the headers.
GatewayRequest_NoAuthOnStream(method, path, json_data, stream, at) ==
    [via |-> "make_request", method |-> method,
     url |-> Concat(config.BASE_URL, path),
     headers |-> IF stream THEN [none |-> TRUE] ELSE config.HEADERS,
     body |-> json_data, stream |-> stream, at |-> at]

\* The request make_request issues: requests.request(method, BASE_URL +
\* endpoint, headers=HEADERS, json=json_data, stream=stream)
GatewayRequest(method, path, json_data, stream, at) ==
    [via |-> "make_request", method |-> method,
     url |-> Concat(config.BASE_URL, path), headers |-> config.HEADERS,
     body |-> json_data, stream |-> stream, at |-> at]

\* --------------------------------------------------- poll_until_complete
\* What a response to a status request is, as the service sent it: "error"
\* (transport failure, or a 4xx/5xx status), "nostatus" (a body that is not
\* JSON or has no status field), "terminal" (status completed, partial or
\* failed) or "nonterminal" (any other status).
PollClass(resp) ==
    IF resp.kind = "transport" \/ resp.code \in 400..599 THEN "error"
    ELSE IF ~resp.isJson \/ "status" \notin DOMAIN resp.body THEN "nostatus"
    ELSE IF resp.body["status"] \in {"completed", "partial", "failed"} THEN "terminal"
    ELSE "nonterminal"

\* Mutant: "failed" is left out of the terminal states.
IsTerminal_NoFailed(s) == s \in {"completed", "partial"}

\* Mutant: the comparison ignores case and takes "error" for a terminal status.
IsTerminal_Lenient(s) == s \in {"completed", "partial", "failed", "Completed", "error"}

\* status["status"] in ["completed", "partial", "failed"]
IsTerminal(s) == s \in TerminalStates

\* Mutant: the loop runs once more than max_attempts.
LoopContinues_OffByOne(done, maxAttempts) == done <= maxAttempts

\* Mutant: the loop runs twice more than max_attempts.
LoopContinues_TwoMore(done, maxAttempts) == done < maxAttempts + 2

\* for attempt in range(max_attempts): another iteration is started
LoopContinues(done, maxAttempts) == done < maxAttempts

\* Mutant: each sleep lasts a second longer than check_interval.
SleepSeconds_PlusOne(interval) == interval + 1

\* Mutant: each sleep lasts twice check_interval.
SleepSeconds_Double(interval) == 2 * interval

\* time.sleep(check_interval)
SleepSeconds(interval) == interval

\* print(f"  [{progress}%] {step}") with progress = status.get("progress", 0)
\* and step = status.get("current_step", "Processing...")
ProgressLine(status) ==
    <<Get(status, "progress", 0), Get(status, "current_step", "Processing...")>>

\* Mutant: a failed request is swallowed and the loop goes on to sleep and retry.
PollDecision_Retry(r) ==
    IF r.kind = "raise" THEN "sleep"
    ELSE IF "status" \notin DOMAIN r.value THEN "keyerror"
    ELSE IF IsTerminal(r.value["status"]) THEN "return"
    ELSE "sleep"

\* Mutant: progress and current_step are read with status[...], so a payload
\* without them raises KeyError.
PollDecision_StrictFields(r) ==
    IF r.kind = "raise" THEN "raise"
    ELSE IF "status" \notin DOMAIN r.value THEN "keyerror"
    ELSE IF IsTerminal(r.value["status"]) THEN "return"
    ELSE IF {"progress", "current_step"} \subseteq DOMAIN r.value THEN "sleep"
    ELSE "keyerror"

\* What one iteration of the loop does with the result r of make_request:
\* "raise" (the request failed: the exception propagates), "keyerror" (the
\* payload has no status), "return" (terminal status) or "sleep".
PollDecision(r) ==
    IF r.kind = "raise" THEN "raise"
    ELSE IF "status" \notin DOMAIN r.value THEN "keyerror"
    ELSE IF IsTerminal(r.value["status"]) THEN "return"
    ELSE "sleep"

\* Mutant: only the status field is handed back.
PollReturnValue_StatusOnly(status) == [status |-> status["status"]]

\* return status
PollReturnValue(status) == status

\* Where control goes when the poller returns to its caller.
AfterPoll(caller) ==
    CASE caller = "poll_until_complete" -> "done"
      [] caller = "generate_deck" -> "deck_summary"
      [] caller = "analyze_template" -> "an_summary"
      [] OTHER -> "done"

\* Mutant: the loop variable goes on from where the previous call left it.
LoopStart_Carry(previous) == previous

\* The value of the loop variable before the first iteration of a call: the
\* loop of each call counts from 0, whatever an earlier call left behind.
LoopStart(previous) == 0

\* Mutant: the poll cancels the operation instead of reading its status.
StatusRequest_Cancel(ep, at) ==
    GatewayRequest("DELETE", ep, [cancel |-> TRUE], FALSE, at)

\* status = make_request("GET", endpoint): the request of one poll
StatusRequest(ep, at) == GatewayRequest("GET", ep, NoValue, FALSE, at)

\* The status payloads the service answers the caller's status endpoint with.
PollPayloads(caller) ==
    IF caller = "analyze_template" THEN AnalysisPayloads ELSE StatusPayloads

\* The caller calls poll_until_complete(endpoint, check_interval, max_attempts).
CallPoll ==
    /\ pc = "idle"
    /\ \E ci \in 0..MaxIntervalArg, ma \in 0..MaxAttemptsArg :
         /\ check_interval' = ci
         /\ max_attempts' = ma
    /\ op' = "poll_until_complete"
    /\ endpoint' = <<"/presentations/", "gen_1", "/status">>
    /\ pc' = "poll_loop"
    /\ attempt' = LoopStart(attempt)
    /\ UNCHANGED <<sleepLeft, now, requests, sleeps, slept, printed,
                   lastResp, lastError, polls, result, args, init_response, steps,
                   outcome>>
    /\ UNCHANGED fileVars
    /\ UNCHANGED envVars

\* One iteration of the for loop, up to and including the call of time.sleep.
PollRequest ==
    /\ pc = "poll_loop"
    /\ LoopContinues(attempt, max_attempts)
    /\ \E resp \in Responses(PollPayloads(op)) :
         LET r == MakeRequestResult(resp, FALSE)
             d == PollDecision(r)
         IN  /\ requests' = Append(requests, StatusRequest(endpoint, now))
             /\ attempt' = attempt + 1
             /\ lastResp' = resp
             /\ lastError' = IF d = "raise" THEN r ELSE lastError
             /\ polls' = [polls EXCEPT ![PollClass(resp)] = @ + 1]
             /\ result' = IF d = "return" THEN PollReturnValue(r.value) ELSE result
             /\ outcome' = CASE d = "raise" -> r
                             [] d = "keyerror" -> Raise("KeyError", 0)
                             [] d = "return" ->
                                  IF AfterPoll(op) = "done"
                                  THEN Return(PollReturnValue(r.value))
                                  ELSE outcome
                             [] d = "sleep" -> outcome
             /\ printed' = IF d = "sleep"
                           THEN [count |-> printed.count + 1,
                                 line |-> ProgressLine(r.value)]
                           ELSE printed
             /\ sleeps' = IF d = "sleep" THEN sleeps + 1 ELSE sleeps
             /\ sleepLeft' = IF d = "sleep" THEN SleepSeconds(check_interval) ELSE 0
             /\ pc' = CASE d \in {"raise", "keyerror"} -> "done"
                        [] d = "return" -> AfterPoll(op)
                        [] d = "sleep" ->
                             IF SleepSeconds(check_interval) > 0 THEN "poll_sleep"
                             ELSE "poll_loop"
    /\ UNCHANGED <<op, endpoint, check_interval, max_attempts, now, slept, args,
                   init_response, steps>>
    /\ UNCHANGED fileVars
    /\ UNCHANGED envVars

\* One second of time.sleep passes; the loop resumes when the sleep is over.
PollSleepTick ==
    /\ pc = "poll_sleep"
    /\ sleepLeft > 0
    /\ sleepLeft' = sleepLeft - 1
    /\ now' = now + 1
    /\ slept' = slept + 1
    /\ pc' = IF sleepLeft' = 0 THEN "poll_loop" ELSE "poll_sleep"
    /\ UNCHANGED <<op, endpoint, check_interval, max_attempts, attempt, requests,
                   sleeps, printed, lastResp, lastError, polls, result, args,
                   init_response, steps, outcome>>
    /\ UNCHANGED fileVars
    /\ UNCHANGED envVars

\* The loop is exhausted: raise TimeoutError(...)
PollTimeout ==
    /\ pc = "poll_loop"
    /\ ~LoopContinues(attempt, max_attempts)
    /\ outcome' = Raise("TimeoutError", 0)
    /\ pc' = "done"
    /\ UNCHANGED <<op, endpoint, check_interval, max_attempts, attempt, sleepLeft,
                   now, requests, sleeps, slept, printed, lastResp, lastError,
                   polls, result, args, init_response, steps>>
    /\ UNCHANGED fileVars
    /\ UNCHANGED envVars

\* ------------------------------------------------ make_request, called alone
\* The caller calls make_request(method, endpoint, json_data, stream).
CallMakeRequest ==
    /\ pc = "idle"
    /\ \E m \in {"GET", "POST"}, st \in BOOLEAN :
         args' = [method |-> m, stream |-> st]
    /\ op' = "make_request"
    /\ endpoint' = <<"/templates">>
    /\ pc' = "mr_request"
    /\ UNCHANGED <<check_interval, max_attempts, attempt, sleepLeft, now, requests,
                   sleeps, slept, printed, lastResp, lastError, polls, result,
                   init_response, steps, outcome>>
    /\ UNCHANGED fileVars
    /\ UNCHANGED envVars

\* The body of make_request: one requests.request call, raise_for_status,
\* and the response or its JSON.
MakeRequestStep ==
    /\ pc = "mr_request"
    /\ \E resp \in Responses(ConfirmPayloads) :
         LET r == MakeRequestResult(resp, args.stream)
         IN  /\ requests' = Append(requests,
                    GatewayRequest(args.method, endpoint, NoValue, args.stream, now))
             /\ lastResp' = resp
             /\ lastError' = IF r.kind = "raise" THEN r ELSE lastError
             /\ outcome' = r
    /\ pc' = "done"
    /\ UNCHANGED <<op, endpoint, check_interval, max_attempts, attempt, sleepLeft,
                   now, sleeps, slept, printed, polls, result, args, init_response,
                   steps>>
    /\ UNCHANGED fileVars
    /\ UNCHANGED envVars

\* -------------------------------------------------------- upload_template
\* The request of step 2: requests.put(upload_url, data=f, headers={...})
UploadPutRequest(upload_url, data, at) ==
    [via |-> "requests", method |-> "PUT", url |-> upload_url,
     headers |-> [ContentType |-> PPTX_CONTENT_TYPE],
     body |-> [data |-> data], stream |-> FALSE, at |-> at]

\* Mutant: raise_for_status is not called on the direct response.
DirectResult_NoRaise(resp) ==
    IF resp.kind = "transport" THEN Raise("ConnectionError", 0)
    ELSE Return([response |-> resp])

\* What requests.put followed by raise_for_status does with the response.
DirectResult(resp) ==
    IF resp.kind = "transport" THEN Raise("ConnectionError", 0)
    ELSE IF RaiseForStatus(resp.code) THEN Raise("HTTPError", resp.code)
    ELSE Return([response |-> resp])

\* Mutant: leaving the with block does not close the file.
WithExit_Leak(files, path) == files

\* Leaving a "with open(...) as f" block, normally or by an exception: f is closed.
WithExit(files, path) == files \ {path}

\* The caller calls upload_template(file_path, metadata); the file exists or not.
CallUpload ==
    /\ pc = "idle"
    /\ \E ex \in BOOLEAN : args' = [file_path |-> TemplatePath, exists |-> ex]
    /\ op' = "upload_template"
    /\ pc' = "up_stat"
    /\ UNCHANGED <<endpoint, check_interval, max_attempts, attempt, sleepLeft, now,
                   requests, sleeps, slept, printed, lastResp, lastError, polls,
                   result, init_response, steps, outcome>>
    /\ UNCHANGED fileVars
    /\ UNCHANGED envVars

\* os.path.basename(file_path); os.path.getsize(file_path)
UploadStat ==
    /\ pc = "up_stat"
    /\ IF args.exists
       THEN /\ pc' = "up_create"
            /\ steps' = Append(steps, "stat")
            /\ outcome' = outcome
       ELSE /\ pc' = "done"
            /\ steps' = steps
            /\ outcome' = Raise("FileNotFoundError", 0)
    /\ UNCHANGED <<op, endpoint, check_interval, max_attempts, attempt, sleepLeft,
                   now, requests, sleeps, slept, printed, lastResp, lastError, polls,
                   result, args, init_response>>
    /\ UNCHANGED fileVars
    /\ UNCHANGED envVars

\* Step 1: init_response = make_request("POST", "/templates", {...}), then
\* template_id = init_response["template_id"], upload_url = init_response["upload_url"]
UploadCreate ==
    /\ pc = "up_create"
    /\ \E resp \in Responses(CreatePayloads) :
         LET r == MakeRequestResult(resp, FALSE)
             ok == r.kind = "return"
             complete == ok /\ {"template_id", "upload_url"} \subseteq DOMAIN r.value
         IN  /\ requests' = Append(requests,
                    GatewayRequest("POST", <<"/templates">>,
                                   [filename |-> TemplatePath, file_size |-> Len(TemplateBytes)],
                                   FALSE, now))
             /\ lastResp' = resp
             /\ lastError' = IF ok THEN lastError ELSE r
             /\ init_response' = IF ok THEN r.value ELSE init_response
             /\ steps' = IF ok THEN Append(steps, "create") ELSE steps
             /\ outcome' = IF ~ok THEN r
                           ELSE IF ~complete THEN Raise("KeyError", 0)
                           ELSE outcome
             /\ pc' = IF complete THEN "up_open" ELSE "done"
    /\ UNCHANGED <<op, endpoint, check_interval, max_attempts, attempt, sleepLeft,
                   now, sleeps, slept, printed, polls, result, args>>
    /\ UNCHANGED fileVars
    /\ UNCHANGED envVars

\* Step 2, entering the with block: open(file_path, "rb"); it can fail
\* (the file was removed or cannot be read).
UploadOpen ==
    /\ pc = "up_open"
    /\ \E ok \in BOOLEAN :
         IF ok
         THEN /\ openFiles' = openFiles \cup {args.file_path}
              /\ opened' = opened + 1
              /\ pc' = "up_put"
              /\ outcome' = outcome
         ELSE /\ UNCHANGED <<openFiles, opened>>
              /\ pc' = "done"
              /\ outcome' = Raise("OSError", 0)
    /\ UNCHANGED <<op, endpoint, check_interval, max_attempts, attempt, sleepLeft,
                   now, requests, sleeps, slept, printed, lastResp, lastError, polls,
                   result, args, init_response, steps, outFile, download>>
    /\ UNCHANGED envVars

\* Step 2, inside the with block: requests.put(...), raise_for_status(); the
\* file is closed when the block is left, normally or by the exception.
UploadPut ==
    /\ pc = "up_put"
    /\ \E resp \in Responses({NoValue}) :
         LET r == DirectResult(resp)
             ok == r.kind = "return"
         IN  /\ requests' = Append(requests,
                    UploadPutRequest(init_response["upload_url"], TemplateBytes, now))
             /\ lastResp' = resp
             /\ lastError' = IF ok THEN lastError ELSE r
             /\ steps' = IF ok THEN Append(steps, "put") ELSE steps
             /\ outcome' = IF ok THEN outcome ELSE r
             /\ pc' = IF ok THEN "up_confirm" ELSE "done"
             /\ stored' = IF resp.kind = "http" /\ resp.code \in 200..299
                           THEN [url |-> init_response["upload_url"], data |-> TemplateBytes]
                           ELSE stored
    /\ openFiles' = WithExit(openFiles, args.file_path)
    /\ UNCHANGED <<op, endpoint, check_interval, max_attempts, attempt, sleepLeft,
                   now, sleeps, slept, printed, polls, result, args, init_response,
                   opened, outFile, download>>
    /\ UNCHANGED <<config, calls, earlier, demo, journal>>

\* Step 3: make_request("POST", f"/templates/{template_id}/upload/confirm"),
\* then return init_response
UploadConfirm ==
    /\ pc = "up_confirm"
    /\ \E resp \in Responses(ConfirmPayloads) :
         LET r == MakeRequestResult(resp, FALSE)
             ok == r.kind = "return"
         IN  /\ requests' = Append(requests,
                    GatewayRequest("POST",
                        <<"/templates/">> \o init_response["template_id"]
                            \o <<"/upload/confirm">>,
                        NoValue, FALSE, now))
             /\ lastResp' = resp
             /\ lastError' = IF ok THEN lastError ELSE r
             /\ steps' = IF ok THEN Append(steps, "confirm") ELSE steps
             /\ outcome' = IF ok THEN Return(init_response) ELSE r
    /\ pc' = "done"
    /\ UNCHANGED <<op, endpoint, check_interval, max_attempts, attempt, sleepLeft,
                   now, sleeps, slept, printed, polls, result, args, init_response>>
    /\ UNCHANGED fileVars
    /\ UNCHANGED envVars

\* ---------------------------------------------------------- generate_deck
\* The prints after the poll: result['status'], result['total_pages_generated']
\* and, for each sr of result.get("slide_results"), sr["status"],
\* sr['slide_index'], sr['pages_generated'].  TRUE when one of them raises KeyError.
DeckSummaryRaises(res) ==
    \/ "status" \notin DOMAIN res
    \/ "total_pages_generated" \notin DOMAIN res
    \/ LET srs == Get(res, "slide_results", <<>>)
       IN  \E i \in 1..Len(srs) :
             ~({"status", "slide_index", "pages_generated"} \subseteq DOMAIN srs[i])

\* if output_path and result.get("download_url")
DeckDownloads(output_path, res) ==
    Truthy(output_path) /\ Truthy(Get(res, "download_url", None))

\* Mutant: the status path is built with a fixed id, not the one received.
DeckStatusEndpoint_FixedId(generation_id) ==
    <<"/presentations/", "gen_1", "/status">>

\* f"/presentations/{generation_id}/status"
DeckStatusEndpoint(generation_id) ==
    <<"/presentations/">> \o generation_id \o <<"/status">>

\* The caller calls generate_deck(slides, options, output_path).
CallDeck ==
    /\ pc = "idle"
    /\ \E out \in {None, <<>>, <<"my_deck.pptx">>} : args' = [output_path |-> out]
    /\ op' = "generate_deck"
    /\ pc' = "deck_post"
    /\ UNCHANGED <<endpoint, check_interval, max_attempts, attempt, sleepLeft, now,
                   requests, sleeps, slept, printed, lastResp, lastError, polls,
                   result, init_response, steps, outcome>>
    /\ UNCHANGED fileVars
    /\ UNCHANGED envVars

\* init_response = make_request("POST", "/presentations/generate-deck", body),
\* generation_id = init_response["generation_id"], and the call of
\* poll_until_complete(f"/presentations/{generation_id}/status") with its defaults
DeckPost ==
    /\ pc = "deck_post"
    /\ \E resp \in Responses(DeckInitPayloads) :
         LET r == MakeRequestResult(resp, FALSE)
             ok == r.kind = "return"
             complete == ok /\ "generation_id" \in DOMAIN r.value
         IN  /\ requests' = Append(requests,
                    GatewayRequest("POST", <<"/presentations/generate-deck">>,
                                   [slides |-> Get(args, "slides", <<"slide">>)],
                                   FALSE, now))
             /\ lastResp' = resp
             /\ lastError' = IF ok THEN lastError ELSE r
             /\ init_response' = IF ok THEN r.value ELSE init_response
             /\ steps' = IF ok THEN Append(steps, "start") ELSE steps
             /\ outcome' = IF ~ok THEN r
                           ELSE IF ~complete THEN Raise("KeyError", 0)
                           ELSE outcome
             /\ endpoint' = IF complete
                            THEN DeckStatusEndpoint(r.value["generation_id"])
                            ELSE endpoint
             /\ check_interval' = IF complete THEN DefaultCheckInterval ELSE check_interval
             /\ max_attempts' = IF complete THEN DefaultMaxAttempts ELSE max_attempts
             /\ pc' = IF complete THEN "poll_loop" ELSE "done"
    /\ attempt' = LoopStart(attempt)
    /\ UNCHANGED <<op, sleepLeft, now, sleeps, slept, printed, polls, result, args>>
    /\ UNCHANGED fileVars
    /\ UNCHANGED envVars

\* The statements of generate_deck after the poll, up to the call of
\* download_file or the return.
DeckSummary ==
    /\ pc = "deck_summary"
    /\ IF DeckSummaryRaises(result)
       THEN /\ outcome' = Raise("KeyError", 0)
            /\ pc' = "done"
            /\ download' = download
       ELSE IF DeckDownloads(args.output_path, result)
       THEN /\ outcome' = outcome
            /\ pc' = "dl_request"
            /\ download' = [url |-> result["download_url"], chunks |-> <<>>, next |-> 1]
       ELSE /\ outcome' = Return(result)
            /\ pc' = "done"
            /\ download' = download
    /\ steps' = Append(steps, "poll")
    /\ UNCHANGED <<op, endpoint, check_interval, max_attempts, attempt, sleepLeft,
                   now, requests, sleeps, slept, printed, lastResp, lastError, polls,
                   result, args, init_response, openFiles, opened, outFile>>
    /\ UNCHANGED envVars

\* Mutant: the direct GET is sent with the gateway's headers.
DirectGetRequest_WithKey(url, at) ==
    [via |-> "requests", method |-> "GET", url |-> url, headers |-> config.HEADERS,
     body |-> NoValue, stream |-> TRUE, at |-> at]

\* ---------------------------------------------------------- download_file
\* The request of requests.get(url, stream=True)
DirectGetRequest(url, at) ==
    [via |-> "requests", method |-> "GET", url |-> url, headers |-> [none |-> TRUE],
     body |-> NoValue, stream |-> TRUE, at |-> at]

\* if not url.startswith("http"): through the gateway, else directly
DownloadRequestFor(url, at) ==
    IF ~StartsWithHttp(url)
    THEN GatewayRequest("GET", <<"/presentations/">> \o url \o <<"/download">>,
                        NoValue, TRUE, at)
    ELSE DirectGetRequest(url, at)

\* Mutant: each chunk is written in front of what the file already holds.
WriteChunk_Prepend(data, chunk) == chunk \o data

\* f.write(chunk): the bytes of the chunk are appended to the file
WriteChunk(data, chunk) == data \o chunk

\* What the service sends for a download: the object stored at the URL when a
\* PUT left one there, cut into chunks in any way; otherwise some other body.
RECURSIVE Flatten(_)
Flatten(chunks) == IF chunks = <<>> THEN <<>> ELSE Head(chunks) \o Flatten(Tail(chunks))

Chunkings(data) ==
    IF data = <<>> THEN { <<>> }
    ELSE { <<data>> }
         \cup { <<SubSeq(data, 1, i), SubSeq(data, i + 1, Len(data))>> :
                   i \in 1..(Len(data) - 1) }
         \cup { <<SubSeq(data, 1, c[1]), SubSeq(data, c[1] + 1, c[2]),
                   SubSeq(data, c[2] + 1, Len(data))>> :
                   c \in { d \in (1..Len(data)) \X (1..Len(data)) :
                              d[1] < d[2] /\ d[2] < Len(data) } }

DownloadResponsesFor(url) ==
    IF stored.url = url
    THEN {TransportFailure}
         \cup [kind : {"http"}, code : Codes, isJson : {FALSE},
               body : { [chunks |-> c] : c \in Chunkings(stored.data) }]
    ELSE DownloadResponses

\* make_request(..., stream=True), or requests.get and raise_for_status
DownloadRequest ==
    /\ pc = "dl_request"
    /\ \E resp \in DownloadResponsesFor(download.url) :
         LET r == IF ~StartsWithHttp(download.url)
                  THEN MakeRequestResult(resp, TRUE)
                  ELSE DirectResult(resp)
             ok == r.kind = "return"
         IN  /\ requests' = Append(requests, DownloadRequestFor(download.url, now))
             /\ lastResp' = resp
             /\ lastError' = IF ok THEN lastError ELSE r
             /\ download' = IF ok THEN [download EXCEPT !.chunks = resp.body.chunks]
                            ELSE download
             /\ outcome' = IF ok THEN outcome ELSE r
             /\ pc' = IF ok THEN "dl_open" ELSE "done"
    /\ UNCHANGED <<op, endpoint, check_interval, max_attempts, attempt, sleepLeft,
                   now, sleeps, slept, printed, polls, result, args, init_response,
                   steps, openFiles, opened, outFile>>
    /\ UNCHANGED envVars

\* open(output_path, "wb"): creates or truncates the file; it can fail.
DownloadOpen ==
    /\ pc = "dl_open"
    /\ \E ok \in BOOLEAN :
         IF ok
         THEN /\ openFiles' = openFiles \cup {args.output_path}
              /\ opened' = opened + 1
              /\ outFile' = [exists |-> TRUE, data |-> <<>>]
              /\ pc' = "dl_write"
              /\ outcome' = outcome
         ELSE /\ UNCHANGED <<openFiles, opened, outFile>>
              /\ pc' = "done"
              /\ outcome' = Raise("OSError", 0)
    /\ UNCHANGED <<op, endpoint, check_interval, max_attempts, attempt, sleepLeft,
                   now, requests, sleeps, slept, printed, lastResp, lastError, polls,
                   result, args, init_response, steps, download>>
    /\ UNCHANGED envVars

\* One iteration of "for chunk in response.iter_content(...): f.write(chunk)";
\* reading the chunk or writing it can fail, and the with block closes the file.
DownloadChunk ==
    /\ pc = "dl_write"
    /\ download.next <= Len(download.chunks)
    /\ \E ok \in BOOLEAN :
         IF ok
         THEN /\ outFile' = [outFile EXCEPT
                                 !.data = WriteChunk(@, download.chunks[download.next])]
              /\ download' = [download EXCEPT !.next = @ + 1]
              /\ UNCHANGED <<openFiles, pc, outcome>>
         ELSE /\ openFiles' = WithExit(openFiles, args.output_path)
              /\ pc' = "done"
              /\ outcome' = Raise("IOError", 0)
              /\ UNCHANGED <<outFile, download>>
    /\ UNCHANGED <<op, endpoint, check_interval, max_attempts, attempt, sleepLeft,
                   now, requests, sleeps, slept, printed, lastResp, lastError, polls,
                   result, args, init_response, steps, opened>>
    /\ UNCHANGED envVars

\* The chunks are exhausted: the with block closes the file, download_file
\* returns, and generate_deck returns result.
DownloadFinish ==
    /\ pc = "dl_write"
    /\ download.next > Len(download.chunks)
    /\ openFiles' = WithExit(openFiles, args.output_path)
    /\ steps' = Append(steps, "download")
    /\ outcome' = Return(result)
    /\ pc' = "done"
    /\ UNCHANGED <<op, endpoint, check_interval, max_attempts, attempt, sleepLeft,
                   now, requests, sleeps, slept, printed, lastResp, lastError, polls,
                   result, args, init_response, opened, outFile, download>>
    /\ UNCHANGED envVars

\* download_file(url, output_path) called on its own.
CallDownload ==
    /\ pc = "idle"
    /\ \E u \in { <<"http", "s://storage/u1">>, <<"gen_1">> } :
         download' = [url |-> u, chunks |-> <<>>, next |-> 1]
    /\ args' = [output_path |-> <<"out.pptx">>]
    /\ op' = "download_file"
    /\ pc' = "dl_request"
    /\ UNCHANGED <<endpoint, check_interval, max_attempts, attempt, sleepLeft, now,
                   requests, sleeps, slept, printed, lastResp, lastError, polls,
                   result, init_response, steps, openFiles, opened, outFile, outcome>>
    /\ UNCHANGED envVars

\* ------------------------------------------------------- analyze_template
\* f"/templates/{template_id}/analysis"
AnalysisEndpoint(template_id) == <<"/templates/">> \o template_id \o <<"/analysis">>

\* The caller calls analyze_template(template_id).
CallAnalyze ==
    /\ pc = "idle"
    /\ args' = [template_id |-> <<"tmpl_1">>]
    /\ op' = "analyze_template"
    /\ pc' = "an_post"
    /\ UNCHANGED <<endpoint, check_interval, max_attempts, attempt, sleepLeft, now,
                   requests, sleeps, slept, printed, lastResp, lastError, polls,
                   result, init_response, steps, outcome>>
    /\ UNCHANGED fileVars
    /\ UNCHANGED envVars

\* make_request("POST", f"/templates/{template_id}/analysis", analysis_options)
\* and the call of poll_until_complete(f"/templates/{template_id}/analysis")
AnalyzePost ==
    /\ pc = "an_post"
    /\ \E resp \in Responses(AnalysisStartPayloads) :
         LET r == MakeRequestResult(resp, FALSE)
             ok == r.kind = "return"
         IN  /\ requests' = Append(requests,
                    GatewayRequest("POST", AnalysisEndpoint(args.template_id),
                                   [options |-> "all"], FALSE, now))
             /\ lastResp' = resp
             /\ lastError' = IF ok THEN lastError ELSE r
             /\ steps' = IF ok THEN Append(steps, "start") ELSE steps
             /\ outcome' = IF ok THEN outcome ELSE r
             /\ endpoint' = IF ok THEN AnalysisEndpoint(args.template_id) ELSE endpoint
             /\ check_interval' = IF ok THEN DefaultCheckInterval ELSE check_interval
             /\ max_attempts' = IF ok THEN DefaultMaxAttempts ELSE max_attempts
             /\ pc' = IF ok THEN "poll_loop" ELSE "done"
    /\ attempt' = LoopStart(attempt)
    /\ UNCHANGED <<op, sleepLeft, now, sleeps, slept, printed, polls, result, args,
                   init_response>>
    /\ UNCHANGED fileVars
    /\ UNCHANGED envVars

\* results = result.get("results", {}); slides = results.get("slides", []);
\* the prints; return result
AnalyzeSummary ==
    /\ pc = "an_summary"
    /\ steps' = Append(steps, "poll")
    /\ outcome' = Return(result)
    /\ pc' = "done"
    /\ UNCHANGED <<op, endpoint, check_interval, max_attempts, attempt, sleepLeft,
                   now, requests, sleeps, slept, printed, lastResp, lastError, polls,
                   result, args, init_response>>
    /\ UNCHANGED fileVars
    /\ UNCHANGED envVars

\* -------------------------------------------------- generate_single_slide
\* The caller calls generate_single_slide(template_slide_id, slide_data,
\* options, output_path).
CallSingle ==
    /\ pc = "idle"
    /\ \E out \in {None, <<"simple.pptx">>} : args' = [output_path |-> out]
    /\ op' = "generate_single_slide"
    /\ pc' = "ss_post"
    /\ UNCHANGED <<endpoint, check_interval, max_attempts, attempt, sleepLeft, now,
                   requests, sleeps, slept, printed, lastResp, lastError, polls,
                   result, init_response, steps, outcome>>
    /\ UNCHANGED fileVars
    /\ UNCHANGED envVars

\* result = make_request("POST", "/presentations/generate", request_body), the
\* print, and the call of download_file or the return
SinglePost ==
    /\ pc = "ss_post"
    /\ \E resp \in Responses(SinglePayloads) :
         LET r == MakeRequestResult(resp, FALSE)
             ok == r.kind = "return"
             dl == ok /\ DeckDownloads(args.output_path, r.value)
         IN  /\ requests' = Append(requests,
                    GatewayRequest("POST", <<"/presentations/generate">>,
                                   [template_slide_id |-> <<"slide_1">>], FALSE, now))
             /\ lastResp' = resp
             /\ lastError' = IF ok THEN lastError ELSE r
             /\ result' = IF ok THEN r.value ELSE result
             /\ steps' = IF ok THEN Append(steps, "generate") ELSE steps
             /\ download' = IF dl
                            THEN [url |-> r.value["download_url"], chunks |-> <<>>,
                                  next |-> 1]
                            ELSE download
             /\ outcome' = IF ~ok THEN r ELSE IF dl THEN outcome ELSE Return(r.value)
             /\ pc' = IF dl THEN "dl_request" ELSE "done"
    /\ UNCHANGED <<op, endpoint, check_interval, max_attempts, attempt, sleepLeft,
                   now, sleeps, slept, printed, polls, args, init_response,
                   openFiles, opened, outFile>>
    /\ UNCHANGED envVars

\* ------------------------------------------ demo_generate_from_sample_data
\* One entry of the "slides" array of demo_data_fake.json.
SlideWithId(id) == [template_slide_id |-> id, slide_data |-> "data"]
SlideWithoutId == [slide_data |-> "data"]

\* The "slides" arrays the data file can hold (the file is edited by the user,
\* who fills in the template_slide_id values).
DemoDecks ==
    { <<SlideWithId(<<"slide_1">>), SlideWithId(<<"slide_2">>)>>,
      <<SlideWithoutId, SlideWithId(<<"slide_2">>)>>,
      <<SlideWithId(<<>>), SlideWithId(<<"slide_2">>)>>,
      <<SlideWithId(<<"slide_1">>), SlideWithoutId>>,
      <<SlideWithId(<<"slide_1">>), SlideWithId(<<>>)>>,
      <<>> }

\* "template_slide_id" not in first_slide or not first_slide["template_slide_id"]
LacksTemplateSlideId(slide) ==
    "template_slide_id" \notin DOMAIN slide \/ ~Truthy(slide["template_slide_id"])

\* The caller calls demo_generate_from_sample_data(); the data file exists or not.
CallDemo ==
    /\ pc = "idle"
    /\ \E ex \in BOOLEAN, deck \in DemoDecks :
         args' = [exists |-> ex, slides |-> deck, output_path |-> None]
    /\ op' = "demo_generate_from_sample_data"
    /\ pc' = "demo_check"
    /\ UNCHANGED <<endpoint, check_interval, max_attempts, attempt, sleepLeft, now,
                   requests, sleeps, slept, printed, lastResp, lastError, polls,
                   result, init_response, steps, outcome>>
    /\ UNCHANGED fileVars
    /\ UNCHANGED envVars

\* os.path.exists(data_path), json.load, the check of deck_request["slides"][0]
\* and the call generate_deck(slides=..., output_path="demo_output.pptx"),
\* whose result or error is the demo's own.
DemoCheck ==
    /\ pc = "demo_check"
    /\ IF ~args.exists
       THEN /\ steps' = Append(steps, "not_found")
            /\ outcome' = Return(NoValue)
            /\ pc' = "done"
            /\ UNCHANGED <<op, args>>
       ELSE IF Len(args.slides) = 0
       THEN /\ outcome' = Raise("IndexError", 0)
            /\ pc' = "done"
            /\ UNCHANGED <<op, args, steps>>
       ELSE IF LacksTemplateSlideId(args.slides[1])
       THEN /\ steps' = Append(steps, "warning")
            /\ outcome' = Return(NoValue)
            /\ pc' = "done"
            /\ UNCHANGED <<op, args>>
       ELSE /\ op' = "generate_deck"
            /\ args' = [args EXCEPT !.output_path = <<"demo_output.pptx">>]
            /\ pc' = "deck_post"
            /\ UNCHANGED <<steps, outcome>>
    /\ UNCHANGED <<endpoint, check_interval, max_attempts, attempt, sleepLeft, now,
                   requests, sleeps, slept, printed, lastResp, lastError, polls,
                   result, init_response>>
    /\ UNCHANGED fileVars
    /\ UNCHANGED envVars

\* ------------------------- run_end_to_end_demo, run_template_inheritance_demo
DemoNames == {"run_end_to_end_demo", "run_template_inheritance_demo"}

\* dict.get(key) of a string value: None when the key is absent
GetStr(d, key) == IF key \in DOMAIN d THEN d[key] ELSE "<None>"

\* The content blocks and cells a slide of demo_data_fake.json can hold.  JSON
\* true is "True"; the string "true" is another value.
PlainCell == [text |-> "Acme"]
LogoCell == [text |-> "stripe.com", is_logo |-> "True"]
StringLogoCell == [text |-> "stripe.com", is_logo |-> "'true'"]
TableBlock(cells) ==
    [type |-> "table", table |-> [table |-> [rows |-> <<[cells |-> cells]>>]]]
ImageBlock(cells) ==
    [type |-> "image", table |-> [table |-> [rows |-> <<[cells |-> cells]>>]]]
TextBlock == [type |-> "text"]
SlideOf(blocks) == [slide_data |-> [content |-> [blocks |-> blocks]]]

TableOnlySlide == SlideOf(<<TableBlock(<<PlainCell>>)>>)
TableTextSlide == SlideOf(<<TableBlock(<<PlainCell>>), TextBlock>>)
LogoSlide == SlideOf(<<TableBlock(<<PlainCell, LogoCell>>)>>)
LogoTextSlide == SlideOf(<<TextBlock, TableBlock(<<LogoCell>>)>>)
StringLogoSlide == SlideOf(<<TableBlock(<<StringLogoCell>>)>>)
ImageLogoSlide == SlideOf(<<ImageBlock(<<LogoCell>>)>>)
BareSlide == [title |-> "Agenda"]
OldIdSlide ==
    [template_slide_id |-> <<"old_id">>,
     slide_data |-> [content |-> [blocks |-> <<TextBlock>>]]]

SlideKinds ==
    { TableOnlySlide, TableTextSlide, LogoSlide, LogoTextSlide, StringLogoSlide,
      ImageLogoSlide, BareSlide, OldIdSlide }

\* Largest number of slides in the loaded deck (specification SpecAssign).
MaxDeckSlides == 2

\* deck_request["slides"] of the data file
LoadedDecks == UNION { [1..n -> SlideKinds] : n \in 1..MaxDeckSlides }

\* results.slides of the analysis: one, two or three analysed slides
AnalysedSlide(id, n) == [slideId |-> id, slideNumber |-> n]
SlidesInfos ==
    { <<AnalysedSlide(<<"slide_a">>, 1)>>,
      <<AnalysedSlide(<<"slide_a">>, 1), AnalysedSlide(<<"slide_b">>, 2)>>,
      <<AnalysedSlide(<<"slide_a">>, 1), AnalysedSlide(<<"slide_b">>, 2),
        AnalysedSlide(<<"slide_c">>, 3)>> }

\* slide.get("slide_data", {}).get("content", {}).get("blocks", [])
BlocksOf(slide) ==
    Get(Get(Get(slide, "slide_data", NoValue), "content", NoValue), "blocks", <<>>)

\* block.get("table", {}).get("table", {}).get("rows", [])
RowsOf(block) ==
    Get(Get(Get(block, "table", NoValue), "table", NoValue), "rows", <<>>)

\* has_logo_cells(slide_data)
has_logo_cells(slide) ==
    \E b \in 1..Len(BlocksOf(slide)) :
       /\ GetStr(BlocksOf(slide)[b], "type") = "table"
       /\ \E r \in 1..Len(RowsOf(BlocksOf(slide)[b])) :
            LET cells == Get(RowsOf(BlocksOf(slide)[b])[r], "cells", <<>>)
            IN  \E c \in 1..Len(cells) : GetStr(cells[c], "is_logo") = "True"

\* any(b.get("type") == "text" for b in blocks)
has_text_block(slide) ==
    \E b \in 1..Len(BlocksOf(slide)) : GetStr(BlocksOf(slide)[b], "type") = "text"

\* first_slide_id, second_slide_id, third_slide_id
TemplateSlideIds(slides_info) ==
    LET first == slides_info[1]["slideId"]
    IN  [first_slide_id |-> first,
         second_slide_id |-> IF Len(slides_info) > 1
                             THEN slides_info[2]["slideId"] ELSE first,
         third_slide_id |-> IF Len(slides_info) > 2
                            THEN slides_info[3]["slideId"] ELSE first]

\* Mutant: the text block is tested before the logo cells.
ChooseTemplateSlide_TextFirst(slide, ids) ==
    IF has_text_block(slide) THEN ids.second_slide_id
    ELSE IF has_logo_cells(slide) THEN ids.third_slide_id
    ELSE ids.first_slide_id

\* if is_logo_slide: ... elif has_text_block: ... else: ...
ChooseTemplateSlide(slide, ids) ==
    IF has_logo_cells(slide) THEN ids.third_slide_id
    ELSE IF has_text_block(slide) THEN ids.second_slide_id
    ELSE ids.first_slide_id

\* slide["template_slide_id"] = id
SetTemplateSlideId(slide, id) ==
    [k \in DOMAIN slide \cup {"template_slide_id"} |->
        IF k = "template_slide_id" THEN id ELSE slide[k]]

\* for i, slide in enumerate(deck_request["slides"]): ...
AssignTemplateSlides(slides, ids) ==
    [i \in 1..Len(slides) |->
        SetTemplateSlideId(slides[i], ChooseTemplateSlide(slides[i], ids))]

\* output_path of the generate_deck call of the demo
DemoOutputPath(name) ==
    IF name = "run_end_to_end_demo" THEN <<"demo_output.pptx">>
    ELSE <<"demo_output_inherited_styling.pptx">>

\* What the journal records of a completed step of the demo.
\* What the journal keeps of the last request of a call and of its answer:
\* the method and URL, whether the answer was a 2xx, and whether it was a
\* status payload with one of the three terminal statuses.
LastExchange(req, resp) ==
    [method |-> req.method,
     url |-> req.url,
     ok |-> resp.kind = "http" /\ resp.code \in 200..299,
     terminal |-> /\ resp.isJson
                  /\ "status" \in DOMAIN resp.body
                  /\ resp.body["status"] \in {"completed", "partial", "failed"}]

UploadEntry(template_id, req, resp) ==
    [call |-> "upload_template", template_id |-> template_id,
     last |-> LastExchange(req, resp)]
AnalysisEntry(slides_info, req, resp) ==
    [call |-> "analyze_template", slides_info |-> slides_info,
     last |-> LastExchange(req, resp)]
LoadEntry(slides) == [call |-> "json.load", slides |-> slides]

\* The deck of the data file shipped with the demo: a table-only slide, a
\* slide with commentary, a logo page.
DemoDataDeck == <<TableOnlySlide, TableTextSlide, LogoSlide>>

\* Mutant: the slides of the analysis are not checked.
NoSlides_Never(slides_info) == FALSE

\* if not slides_info
NoSlides(slides_info) == slides_info = <<>>

\* analysis.get("results", {}).get("slides", [])
SlidesInfoOf(analysis) == Get(Get(analysis, "results", NoValue), "slides", <<>>)

\* slides_info[n]["slideId"] is read for n = 0 and, when present, 1 and 2.
SlideIdsPresent(slides_info) ==
    \A n \in 1..Len(slides_info) : n <= 3 => "slideId" \in DOMAIN slides_info[n]

\* The caller calls run_end_to_end_demo() or run_template_inheritance_demo():
\* os.path.exists(template_path), then the call of upload_template.
CallRunDemo ==
    /\ pc = "idle"
    /\ \E name \in DemoNames, ex \in BOOLEAN :
         /\ demo' = name
         /\ IF ex
            THEN /\ op' = "upload_template"
                 /\ args' = [file_path |-> TemplatePath, exists |-> TRUE]
                 /\ pc' = "up_stat"
                 /\ outcome' = outcome
            ELSE /\ op' = name
                 /\ args' = args
                 /\ pc' = "done"
                 /\ outcome' = Return(NoValue)
    /\ UNCHANGED <<endpoint, check_interval, max_attempts, attempt, sleepLeft, now,
                   requests, sleeps, slept, printed, lastResp, lastError, polls,
                   result, init_response, steps>>
    /\ UNCHANGED fileVars
    /\ UNCHANGED <<config, stored, calls, earlier, journal>>

\* upload_template has returned: template_id = upload_result["template_id"]
\* and the call of analyze_template(template_id).  The journal keeps what the
\* call returned and what its last request and answer were.
DemoAnalyze ==
    /\ demo \in DemoNames
    /\ op = "upload_template"
    /\ pc = "done"
    /\ outcome.kind = "return"
    /\ journal' = Append(journal,
           UploadEntry(outcome.value["template_id"], requests[Len(requests)], lastResp))
    /\ op' = "analyze_template"
    /\ args' = [template_id |-> outcome.value["template_id"]]
    /\ pc' = "an_post"
    /\ outcome' = Pending
    /\ endpoint' = <<>>
    /\ check_interval' = 0
    /\ max_attempts' = 0
    /\ sleepLeft' = 0
    /\ now' = 0
    /\ requests' = <<>>
    /\ sleeps' = 0
    /\ slept' = 0
    /\ printed' = NoPrint
    /\ lastResp' = TransportFailure
    /\ lastError' = Pending
    /\ polls' = NoPolls
    /\ result' = NoValue
    /\ init_response' = NoValue
    /\ steps' = <<>>
    /\ opened' = 0
    /\ attempt' = 0
    /\ UNCHANGED <<openFiles, outFile, download, config, stored, calls, earlier, demo>>

\* analyze_template has returned: the check of results.slides, the three slide
\* ids, and the loading of the data file (run_end_to_end_demo falls back to
\* demo_data.json and fails in open() when that is missing too;
\* run_template_inheritance_demo returns None when the file is missing).
DemoPrepare ==
    /\ demo \in DemoNames
    /\ op = "analyze_template"
    /\ pc = "done"
    /\ outcome.kind = "return"
    /\ LET slides_info == SlidesInfoOf(outcome.value)
           entry == AnalysisEntry(slides_info, requests[Len(requests)], lastResp)
       IN  \E data_exists \in BOOLEAN :
             IF NoSlides(slides_info)
             THEN /\ journal' = Append(journal, entry)
                  /\ outcome' = Return(NoValue)
                  /\ pc' = "done"
             ELSE IF ~SlideIdsPresent(slides_info)
             THEN /\ journal' = Append(journal, entry)
                  /\ outcome' = Raise("KeyError", 0)
                  /\ pc' = "done"
             ELSE IF data_exists
             THEN /\ journal' = journal \o <<entry, LoadEntry(DemoDataDeck)>>
                  /\ outcome' = Pending
                  /\ pc' = "demo_assign"
             ELSE /\ journal' = Append(journal, entry)
                  /\ outcome' = IF demo = "run_end_to_end_demo"
                                THEN Raise("FileNotFoundError", 0)
                                ELSE Return(NoValue)
                  /\ pc' = "done"
    /\ op' = demo
    /\ args' = NoArgs
    /\ endpoint' = <<>>
    /\ check_interval' = 0
    /\ max_attempts' = 0
    /\ sleepLeft' = 0
    /\ now' = 0
    /\ requests' = <<>>
    /\ sleeps' = 0
    /\ slept' = 0
    /\ printed' = NoPrint
    /\ lastResp' = TransportFailure
    /\ lastError' = Pending
    /\ polls' = NoPolls
    /\ result' = NoValue
    /\ init_response' = NoValue
    /\ steps' = <<>>
    /\ opened' = 0
    /\ attempt' = 0
    /\ UNCHANGED <<openFiles, outFile, download, config, stored, calls, earlier, demo>>

\* The loop that assigns the template slide ids, and the call
\* generate_deck(slides=deck_request["slides"], ..., output_path=output_path),
\* whose result or error is the demo's own.
DemoAssign ==
    /\ pc = "demo_assign"
    /\ demo \in DemoNames
    /\ args' = [output_path |-> DemoOutputPath(demo),
                slides |-> AssignTemplateSlides(journal[3].slides,
                               TemplateSlideIds(journal[2].slides_info))]
    /\ op' = "generate_deck"
    /\ pc' = "deck_post"
    /\ UNCHANGED <<endpoint, check_interval, max_attempts, attempt, sleepLeft, now,
                   requests, sleeps, slept, printed, lastResp, lastError, polls,
                   result, init_response, steps, outcome>>
    /\ UNCHANGED fileVars
    /\ UNCHANGED envVars

\* ------------------------------------------------------ a call has ended
\* The top-level call has returned or raised; its locals are gone and the
\* caller may make another call.  The module globals, the local files and the
\* remote storage stay as the call left them.
ReturnToCaller ==
    /\ pc = "done"
    /\ calls + 1 < MaxCalls
    /\ calls' = calls + 1
    /\ earlier' = [kind |-> outcome.kind, exc |-> outcome.exc]
    /\ op' = "none"
    /\ pc' = "idle"
    /\ endpoint' = <<>>
    /\ check_interval' = 0
    /\ max_attempts' = 0
    /\ sleepLeft' = 0
    /\ now' = 0
    /\ requests' = <<>>
    /\ sleeps' = 0
    /\ slept' = 0
    /\ printed' = NoPrint
    /\ lastResp' = TransportFailure
    /\ lastError' = Pending
    /\ polls' = NoPolls
    /\ result' = NoValue
    /\ args' = NoArgs
    /\ init_response' = NoValue
    /\ steps' = <<>>
    /\ opened' = 0
    /\ download' = NoDownload
    /\ outcome' = Pending
    /\ UNCHANGED <<attempt, openFiles, outFile, config, stored, demo, journal>>

Next ==
    \/ CallDownload
    \/ CallAnalyze
    \/ AnalyzePost
    \/ AnalyzeSummary
    \/ CallSingle
    \/ SinglePost
    \/ CallDeck
    \/ DeckPost
    \/ DeckSummary
    \/ DownloadRequest
    \/ DownloadOpen
    \/ DownloadChunk
    \/ DownloadFinish
    \/ CallMakeRequest
    \/ MakeRequestStep
    \/ CallUpload
    \/ UploadStat
    \/ UploadCreate
    \/ UploadOpen
    \/ UploadPut
    \/ UploadConfirm
    \/ CallPoll
    \/ PollRequest
    \/ PollSleepTick
    \/ PollTimeout

Spec == Init /\ [][Next]_vars

\* demo_generate_from_sample_data and the generate_deck call it ends with.
NextDemo ==
    \/ CallDemo
    \/ DemoCheck
    \/ DeckPost
    \/ PollRequest
    \/ PollSleepTick
    \/ PollTimeout
    \/ DeckSummary
    \/ DownloadRequest
    \/ DownloadOpen
    \/ DownloadChunk
    \/ DownloadFinish

SpecDemo == Init /\ [][NextDemo]_vars

\* The state of a demo that has uploaded, analysed and loaded the data file,
\* for every analysis result and every deck of up to MaxDeckSlides slides.
InitAssign ==
    /\ demo \in DemoNames
    /\ op = demo
    /\ pc = "demo_assign"
    /\ endpoint = <<>>
    /\ check_interval = 0
    /\ max_attempts = 0
    /\ attempt = 0
    /\ sleepLeft = 0
    /\ now = 0
    /\ requests = <<>>
    /\ sleeps = 0
    /\ slept = 0
    /\ printed = NoPrint
    /\ lastResp = TransportFailure
    /\ lastError = Pending
    /\ polls = NoPolls
    /\ result = NoValue
    /\ args = NoArgs
    /\ init_response = NoValue
    /\ steps = <<>>
    /\ openFiles = {}
    /\ opened = 0
    /\ outFile = NoFile
    /\ download = NoDownload
    /\ config = InitialConfig
    /\ stored = NoObject
    /\ calls = 0
    /\ earlier = [kind |-> "none", exc |-> ""]
    /\ outcome = Pending
    /\ \E info \in SlidesInfos, deck \in LoadedDecks :
         journal =
           <<UploadEntry(<<"tmpl_1">>,
                 GatewayRequest("POST", <<"/templates/", "tmpl_1", "/upload/confirm">>,
                                NoValue, FALSE, 0),
                 [kind |-> "http", code |-> 200, isJson |-> TRUE,
                  body |-> [status |-> "uploaded"]]),
             AnalysisEntry(info,
                 StatusRequest(AnalysisEndpoint(<<"tmpl_1">>), 0),
                 [kind |-> "http", code |-> 200, isJson |-> TRUE,
                  body |-> [status |-> "completed", results |-> [slides |-> info]]]),
             LoadEntry(deck)>>

\* The assignment of template slide ids, on every input.
SpecAssign == InitAssign /\ [][DemoAssign]_vars

\* run_end_to_end_demo and run_template_inheritance_demo: upload, analysis,
\* assignment of the slide ids, generation and download.
NextRunDemo ==
    \/ CallRunDemo
    \/ UploadStat
    \/ UploadCreate
    \/ UploadOpen
    \/ UploadPut
    \/ UploadConfirm
    \/ DemoAnalyze
    \/ AnalyzePost
    \/ PollRequest
    \/ PollSleepTick
    \/ PollTimeout
    \/ AnalyzeSummary
    \/ DemoPrepare
    \/ DemoAssign
    \/ DeckPost
    \/ DeckSummary
    \/ DownloadRequest
    \/ DownloadOpen
    \/ DownloadChunk
    \/ DownloadFinish

SpecRunDemo == Init /\ [][NextRunDemo]_vars

\* Several calls one after the other: make_request, the poller, the upload and
\* the download.
NextCalls ==
    \/ CallMakeRequest
    \/ MakeRequestStep
    \/ CallPoll
    \/ PollRequest
    \/ PollSleepTick
    \/ PollTimeout
    \/ CallUpload
    \/ UploadStat
    \/ UploadCreate
    \/ UploadOpen
    \/ UploadPut
    \/ UploadConfirm
    \/ CallDownload
    \/ DownloadRequest
    \/ DownloadOpen
    \/ DownloadChunk
    \/ DownloadFinish
    \/ ReturnToCaller

SpecCalls == Init /\ [][NextCalls]_vars

\* The poller called directly, where every request and every sleep completes.
NextPoll ==
    \/ CallPoll
    \/ PollRequest
    \/ PollSleepTick
    \/ PollTimeout

SpecPollFair == Init /\ [][NextPoll]_vars /\ WF_vars(NextPoll)

\* ======================================================================
\* Properties
\* ======================================================================
\* The poller has been called (directly, or by generate_deck after its POST).
PollerCalled ==
    \/ op = "poll_until_complete"
    \/ op = "generate_deck" /\ "generation_id" \in DOMAIN init_response
    \/ op = "analyze_template" /\ steps # <<>>

PollerRunning == pc \in {"poll_loop", "poll_sleep"}

\* The status requests issued so far: the GETs to the status endpoint.
IsStatusRequest(req) == req.method = "GET" /\ req.url = Concat(BASE_URL, endpoint)
StatusRequestSeq == SelectSeq(requests, IsStatusRequest)
StatusRequests == Len(StatusRequestSeq)

TotalPolls == polls.nonterminal + polls.terminal + polls.error + polls.nostatus

TimedOut == outcome.kind = "raise" /\ outcome.exc = "TimeoutError"

\* ceil(a / b) for b > 0
Ceil(a, b) == (a + b - 1) \div b

\* The exception a failed request raises, read off the response.
ExpectedError(resp) ==
    IF resp.kind = "transport" THEN Raise("ConnectionError", 0)
    ELSE Raise("HTTPError", resp.code)

\* ---------------------------------------------------------------------- C1
\* C1: the poller returns at the first poll that reports completed, partial
\* or failed: once a terminal status has been received the poller is no
\* longer running, that poll was the last status request (requests = earlier
\* non-terminal polls + 1), no sleep followed it (sleeps = earlier
\* non-terminal polls, all of them finished), and a direct call has returned.
C1_ReturnsAtFirstTerminal ==
    PollerCalled =>
        /\ polls.terminal <= 1
        /\ polls.terminal = 1 =>
             /\ ~PollerRunning
             /\ polls.error = 0 /\ polls.nostatus = 0
             /\ StatusRequests = polls.nonterminal + 1
             /\ sleeps = polls.nonterminal
             /\ slept = sleeps * check_interval
             /\ sleepLeft = 0
             /\ result # NoValue
             /\ op = "poll_until_complete" => outcome.kind = "return"

C1_Witness ==
    /\ op = "poll_until_complete"
    /\ pc = "done"
    /\ polls.terminal = 1
    /\ polls.nonterminal = 1
    /\ lastResp.body["status"] = "failed"
    /\ attempt < max_attempts

\* ---------------------------------------------------------------------- C2
\* C2: once the poller has ended, it ended with TimeoutError if and only if
\* max_attempts status responses were received and every one of them was a
\* successful response with a non-terminal status; then exactly max_attempts
\* status requests were issued.  While it runs it has not timed out and has
\* issued at most max_attempts requests.
C2_TimeoutIff ==
    PollerCalled =>
        /\ StatusRequests <= max_attempts
        /\ PollerRunning => ~TimedOut
        /\ ~PollerRunning =>
             /\ TimedOut <=> (polls.nonterminal = max_attempts /\ TotalPolls = max_attempts)
             /\ TimedOut => StatusRequests = max_attempts

C2_Witness ==
    /\ op = "poll_until_complete"
    /\ max_attempts = 2
    /\ TimedOut
    /\ StatusRequests = 2
    /\ lastResp.body = [status |-> "processing"]

\* ---------------------------------------------------------------------- C3
\* C3: when attempts 1..k-1 reported non-terminal statuses and attempt k a
\* terminal one, the poller made exactly k requests (k <= max_attempts),
\* slept exactly k-1 times, and handed back the attempt-k payload unchanged.
C3_ExactCallsAndPayload ==
    (PollerCalled /\ polls.terminal = 1 /\ polls.nonterminal = TotalPolls - 1) =>
        /\ StatusRequests = TotalPolls
        /\ TotalPolls <= max_attempts
        /\ sleeps = TotalPolls - 1
        /\ printed.count = TotalPolls - 1
        /\ op = "poll_until_complete" => outcome = Return(lastResp.body)
        /\ pc \in {"deck_summary", "an_summary"} => result = lastResp.body

C3_Witness ==
    /\ op = "poll_until_complete"
    /\ max_attempts = 3
    /\ StatusRequests = 3
    /\ sleeps = 2
    /\ outcome.kind = "return"
    /\ outcome.value = [status |-> "completed", total_pages_generated |-> 1,
                        download_url |-> <<"http", "s://x/y.pptx">>]

\* ---------------------------------------------------------------------- C4
\* C4 as stated: the time slept never exceeds check_interval * max_attempts,
\* and a call that got a terminal payload has slept strictly less than that.
C4_StrictlyLessOnReturn ==
    PollerCalled =>
        /\ slept <= check_interval * max_attempts
        /\ polls.terminal = 1 => slept < check_interval * max_attempts

\* C4 amended: the time slept never exceeds check_interval * max_attempts;
\* a call that got a terminal payload has slept at most
\* check_interval * (max_attempts - 1), which is strictly less than the bound
\* when check_interval > 0; a call that timed out has slept exactly the bound.
C4_BoundedWait ==
    PollerCalled =>
        /\ slept <= check_interval * max_attempts
        /\ polls.terminal = 1 =>
             /\ slept <= check_interval * (max_attempts - 1)
             /\ check_interval > 0 => slept < check_interval * max_attempts
        /\ TimedOut => slept = check_interval * max_attempts
        /\ (check_interval > 0 /\ slept = check_interval * max_attempts) =>
             polls.nonterminal = max_attempts

C4_Witness ==
    /\ op = "poll_until_complete"
    /\ pc = "done"
    /\ polls.terminal = 1
    /\ check_interval = 2
    /\ max_attempts = 3
    /\ slept = 4

\* ---------------------------------------------------------------------- C5
\* C5 as stated (for check_interval > 0, where the quotient is defined): while
\* the poller runs and every status seen is non-terminal, the number of status
\* requests issued equals ceil(elapsed / check_interval).
C5_CeilOfElapsed ==
    (PollerCalled /\ PollerRunning /\ check_interval > 0
        /\ polls.nonterminal = TotalPolls) =>
        StatusRequests = Ceil(now, check_interval)

\* A status request has been issued and no time has passed since.
RequestJustIssued == pc = "poll_sleep" /\ sleepLeft = check_interval

\* C5 amended: while the poller runs and every status seen is non-terminal,
\* the n-th status request is issued at elapsed time (n-1) * check_interval
\* (consecutive requests are check_interval seconds apart) and at most
\* max_attempts are issued; for check_interval > 0 the number issued is
\* ceil(elapsed / check_interval) except at the instant a request has just
\* been issued, where it is elapsed / check_interval + 1.
C5_RequestTimes ==
    (PollerCalled /\ PollerRunning /\ polls.nonterminal = TotalPolls) =>
        /\ StatusRequests <= max_attempts
        /\ \A n \in 1..StatusRequests :
             StatusRequestSeq[n].at = (n - 1) * check_interval
        /\ check_interval > 0 =>
             IF RequestJustIssued
             THEN /\ now % check_interval = 0
                  /\ StatusRequests = (now \div check_interval) + 1
             ELSE StatusRequests = Ceil(now, check_interval)

C5_Witness ==
    /\ op = "poll_until_complete"
    /\ pc = "poll_sleep"
    /\ check_interval = 2
    /\ now = 3
    /\ StatusRequests = 2

\* ---------------------------------------------------------------------- C6
\* The call ended with an error of the download (its request or its file).
TransferFailed ==
    /\ outcome.kind = "raise"
    /\ outcome.exc \in {"HTTPError", "ConnectionError", "OSError", "IOError"}

\* C6: when the poller got a terminal payload whose status is partial or
\* failed, the call (poll_until_complete or generate_deck) returns that payload
\* and raises nothing, unless the download that follows fails.
C6_PartialFailedIsData ==
    (PollerCalled /\ pc = "done" /\ polls.terminal = 1
        /\ result["status"] \in {"partial", "failed"} /\ ~TransferFailed) =>
        outcome = Return(result)

\* ---------------------------------------------------------------------- C7
\* C7: a call of make_request issues exactly one HTTP request (none before its
\* body runs, one when it has ended); a 4xx or 5xx response makes it raise
\* HTTPError and return no payload, a transport failure makes it raise too,
\* and in neither case is the request issued again.
C7_OneRequestFailFast ==
    op = "make_request" =>
        /\ pc = "mr_request" => Len(requests) = 0
        /\ pc = "done" =>
             /\ Len(requests) = 1
             /\ requests[1].method = args.method
             /\ (lastResp.kind = "http" /\ lastResp.code \in 400..599) =>
                  outcome = Raise("HTTPError", lastResp.code)
             /\ lastResp.kind = "transport" =>
                  (outcome.kind = "raise" /\ outcome.value = NoValue)
             /\ outcome.kind = "return" =>
                  (lastResp.kind = "http" /\ lastResp.code \notin 400..599)

C7_Witness ==
    /\ op = "make_request"
    /\ pc = "done"
    /\ lastResp.code = 404
    /\ outcome.exc = "HTTPError"
    /\ Len(requests) = 1

\* ---------------------------------------------------------------------- C8
\* C8: when a status request fails (transport failure or 4xx/5xx), the poller
\* has ended with exactly that error: the call is over, the failed request
\* was the last one (requests = earlier non-terminal polls + 1), no sleep
\* followed it, and the error is not TimeoutError.
C8_PollErrorPropagates ==
    (PollerCalled /\ polls.error >= 1) =>
        /\ pc = "done"
        /\ polls.error = 1
        /\ outcome = ExpectedError(lastResp)
        /\ ~TimedOut
        /\ TotalPolls = polls.nonterminal + 1
        /\ StatusRequests = TotalPolls
        /\ sleeps = polls.nonterminal
        /\ slept = sleeps * check_interval
        /\ sleepLeft = 0

C8_Witness ==
    /\ op = "poll_until_complete"
    /\ polls.error = 1
    /\ polls.nonterminal = 1
    /\ max_attempts = 3
    /\ pc = "done"
    /\ outcome = Raise("HTTPError", 503)

\* ---------------------------------------------------------------------- C9
\* C9: after a status request answered by a non-terminal payload, whether or
\* not it carries progress and current_step, the poller has not failed: it
\* printed the progress line
\* with progress 0 and step "Processing..." for the missing fields, called
\* sleep, and is sleeping, about to poll again, or (attempts exhausted) timed out.
C9_MissingFieldsDefaulted ==
    (PollerCalled /\ TotalPolls > 0 /\ PollClass(lastResp) = "nonterminal") =>
        /\ printed.count = polls.nonterminal
        /\ sleeps = polls.nonterminal
        /\ printed.line[1] = (IF "progress" \in DOMAIN lastResp.body
                              THEN lastResp.body["progress"] ELSE 0)
        /\ printed.line[2] = (IF "current_step" \in DOMAIN lastResp.body
                              THEN lastResp.body["current_step"] ELSE "Processing...")
        /\ \/ PollerRunning /\ outcome = Pending
           \/ pc = "done" /\ TimedOut /\ attempt = max_attempts

C9_Witness ==
    /\ op = "poll_until_complete"
    /\ pc = "poll_sleep"
    /\ lastResp.body = [status |-> "processing"]
    /\ printed.line = <<0, "Processing...">>
    /\ attempt = 2

\* --------------------------------------------------------------------- C10
\* A response that is not a failure: it arrived, with a status outside 4xx/5xx.
HttpOk(resp) == resp.kind = "http" /\ resp.code \notin 400..599

IsCreateRequest(req) ==
    req.method = "POST" /\ req.url = Concat(BASE_URL, <<"/templates">>)

IsPutRequest(req) ==
    req.method = "PUT" /\ req.url = init_response["upload_url"]

IsConfirmRequest(req) ==
    /\ req.method = "POST"
    /\ req.url = BASE_URL \o <<"/templates/">> \o init_response["template_id"]
                     \o <<"/upload/confirm">>

\* C10: in upload_template every step issues at most one request; the first
\* request is the create POST, the second is the PUT to the returned
\* upload_url and is issued only when the create succeeded, the third is the
\* confirm POST and is issued only when the PUT succeeded; the function returns
\* only when the confirm succeeded, and returns the create response.
C10_UploadOrder ==
    [][ op = "upload_template" =>
          /\ Len(requests') <= Len(requests) + 1
          /\ Len(requests') <= 3
          /\ Len(requests') > Len(requests) =>
               /\ Len(requests') = 1 => IsCreateRequest(requests'[1])
               /\ Len(requests') = 2 =>
                    /\ HttpOk(lastResp) /\ lastResp.isJson
                    /\ lastResp.body = init_response
                    /\ IsCreateRequest(requests[1])
                    /\ IsPutRequest(requests'[2])
               /\ Len(requests') = 3 =>
                    /\ HttpOk(lastResp)
                    /\ IsPutRequest(requests[2])
                    /\ IsConfirmRequest(requests'[3])
          /\ (outcome'.kind = "return" /\ outcome.kind # "return") =>
               /\ Len(requests') = 3
               /\ IsConfirmRequest(requests'[3])
               /\ HttpOk(lastResp')
               /\ outcome'.value = init_response
               /\ IsCreateRequest(requests'[1])
    ]_vars

C10_Witness ==
    /\ op = "upload_template"
    /\ pc = "done"
    /\ outcome.kind = "return"
    /\ Len(requests) = 3
    /\ steps = <<"stat", "create", "put", "confirm">>

\* --------------------------------------------------------------------- C11
\* The operations that chain several requests.
AbortingOps ==
    {"upload_template", "analyze_template", "generate_single_slide", "generate_deck"}

\* The most recent request failed: no answer, a 4xx/5xx answer, or (for a JSON
\* request through make_request) a body that is not JSON.
LastRequestFailed ==
    /\ Len(requests) > 0
    /\ \/ lastResp.kind = "transport"
       \/ lastResp.code \in 400..599
       \/ /\ requests[Len(requests)].via = "make_request"
          /\ ~requests[Len(requests)].stream
          /\ ~lastResp.isJson

\* C11: once a request of upload_template, analyze_template,
\* generate_single_slide or generate_deck has failed, the operation is over,
\* its outcome is the error of that request, no file is left open, and from
\* then on no request is issued and no step is added (nothing is cleaned up
\* or rolled back).
C11_FailureAborts ==
    /\ [](  (op \in AbortingOps /\ LastRequestFailed) =>
               /\ pc = "done"
               /\ outcome.kind = "raise"
               /\ outcome = lastError
               /\ outcome.exc \in {"ConnectionError", "HTTPError", "JSONDecodeError"}
               /\ openFiles = {} )
    /\ [][ (op \in AbortingOps /\ LastRequestFailed) =>
               /\ requests' = requests
               /\ steps' = steps
               /\ outcome' = outcome ]_vars

C11_Witness ==
    /\ op = "analyze_template"
    /\ pc = "done"
    /\ Len(requests) = 3
    /\ steps = <<"start">>
    /\ lastResp.kind = "http" /\ lastResp.code = 503
    /\ outcome = Raise("HTTPError", 503)

\* --------------------------------------------------------------------- C12
\* The call is (or was started as) demo_generate_from_sample_data and the data
\* file was loaded.
DemoLoaded == "slides" \in DOMAIN args /\ args.exists

\* C12: when some slide of the loaded deck, whichever its position, has no
\* template_slide_id (missing or empty), no network request is ever issued
\* and the demo ends by printing the warning and returning None.
C12_EverySlideValidated ==
    (DemoLoaded /\ \E i \in 1..Len(args.slides) : LacksTemplateSlideId(args.slides[i])) =>
        /\ requests = <<>>
        /\ pc = "done" => (outcome = Return(NoValue) /\ steps = <<"warning">>)

\* --------------------------------------------------------------------- C13
\* C13: a file is open only inside the with block of upload_template (around
\* the PUT) or of download_file (around the chunk loop); once the call has
\* ended, by return or by an error raised during the transfer, no file is
\* open; and a call opens a file at most once.
C13_HandlesReleased ==
    /\ pc = "done" => openFiles = {}
    /\ openFiles # {} => pc \in {"up_put", "dl_write"}
    /\ opened <= 1

\* A download that failed after its first chunk was written.
C13_Witness ==
    /\ op = "download_file"
    /\ pc = "done"
    /\ outcome = Raise("IOError", 0)
    /\ opened = 1
    /\ openFiles = {}
    /\ Len(outFile.data) > 0

\* --------------------------------------------------------------------- C14
\* The chunks of the current download that have been written so far.
ChunksWritten == SubSeq(download.chunks, 1, download.next - 1)

\* The current call has opened the output file of its download.
DownloadWriting == op = "download_file" /\ opened = 1 /\ pc \in {"dl_write", "done"}

\* C14: every PUT of upload_template carries exactly the bytes of the file;
\* the output file of a download holds exactly the chunks received so far,
\* joined in arrival order; and a finished download of the object a PUT stored
\* holds exactly the uploaded bytes, however the service cut them into chunks.
C14_BytesUnchanged ==
    /\ \A i \in 1..Len(requests) :
         requests[i].method = "PUT" => requests[i].body = [data |-> TemplateBytes]
    /\ DownloadWriting => outFile.data = Flatten(ChunksWritten)
    /\ (DownloadWriting /\ pc = "done" /\ outcome.kind = "return"
          /\ download.url = stored.url) => outFile.data = TemplateBytes

\* An upload, then a download of the stored object that arrived in 3 chunks.
C14_Witness ==
    /\ calls = 1
    /\ DownloadWriting /\ pc = "done" /\ outcome.kind = "return"
    /\ download.url = stored.url
    /\ Len(download.chunks) = 3
    /\ outFile.data = TemplateBytes

\* --------------------------------------------------------------------- C15
\* A read of the poller's status endpoint: a GET without body to BASE_URL + endpoint.
ObservesStatus(req) ==
    /\ req.method = "GET"
    /\ req.body = NoValue
    /\ req.url = Concat(BASE_URL, endpoint)

\* C15: every request of a direct poll_until_complete call is a body-less GET
\* to the one endpoint it was given, and every step taken while the poller
\* runs (inside any operation) either issues no request or issues exactly one
\* such GET; the endpoint and the object in remote storage stay as they were.
\* A poller that ended in Timeout has issued nothing else either.
C15_PollerOnlyObserves ==
    /\ [](op = "poll_until_complete" =>
            \A i \in 1..Len(requests) : ObservesStatus(requests[i]))
    /\ [][ PollerRunning =>
             /\ endpoint' = endpoint
             /\ stored' = stored
             /\ \/ requests' = requests
                \/ /\ Len(requests') = Len(requests) + 1
                   /\ SubSeq(requests', 1, Len(requests)) = requests
                   /\ ObservesStatus(requests'[Len(requests')]) ]_vars

\* A direct call that timed out after three polls.
C15_Witness ==
    /\ op = "poll_until_complete"
    /\ pc = "done"
    /\ TimedOut
    /\ Len(requests) = 3
    /\ \A i \in 1..3 : ObservesStatus(requests[i])

\* --------------------------------------------------------------------- C16
\* The request carries the fixed credential and content type and its URL is
\* BASE_URL followed by a non-empty endpoint.
CarriesFixedHeaders(req) ==
    /\ req.headers = [XAPIKey |-> <<"replace_with_your_api_key">>,
                      ContentType |-> <<"application/json">>]
    /\ Len(req.url) > Len(BASE_URL)
    /\ SubSeq(req.url, 1, Len(BASE_URL)) = BASE_URL

\* C16: in every call, the first or a later one, every request that went
\* through make_request (any method, streamed or not) carries the X-API-Key
\* and application/json headers and targets BASE_URL + endpoint (exactly the
\* endpoint argument when make_request or the poller was called directly);
\* API_KEY, BASE_URL and HEADERS hold the values they were given at import.
C16_FixedHeadersAndBase ==
    /\ \A i \in 1..Len(requests) :
         requests[i].via = "make_request" =>
            /\ CarriesFixedHeaders(requests[i])
            /\ op \in {"make_request", "poll_until_complete"} =>
                 requests[i].url = BASE_URL \o endpoint
    /\ config = [API_KEY |-> API_KEY, BASE_URL |-> BASE_URL, HEADERS |-> HEADERS]

\* A streamed POST through make_request, made as the second call.
C16_Witness ==
    /\ calls = 1
    /\ op = "make_request"
    /\ args.method = "POST" /\ args.stream
    /\ Len(requests) = 1
    /\ CarriesFixedHeaders(requests[1])

\* --------------------------------------------------------------------- C17
\* The POST requests issued so far.
IsPost(req) == req.method = "POST"
PostRequests == SelectSeq(requests, IsPost)

\* The request reads a status endpoint: its path ends in /status.
ReadsStatusEndpoint(req) == req.url[Len(req.url)] = "/status"

\* C17: generate_single_slide never enters the poller, never sleeps, and never
\* requests a status endpoint; once its POST has been issued it is the first
\* request, it goes to /presentations/generate, and no other POST follows.
\* generate_deck requests a status endpoint or enters the poller only after
\* its first request, the POST to /presentations/generate-deck, was answered
\* with a generation_id, and every status request goes to
\* /presentations/{that generation_id}/status.
C17_SyncSingleAsyncDeck ==
    /\ op = "generate_single_slide" =>
         /\ ~PollerRunning /\ TotalPolls = 0 /\ sleeps = 0 /\ slept = 0
         /\ \A i \in 1..Len(requests) : ~ReadsStatusEndpoint(requests[i])
         /\ pc # "ss_post" =>
              /\ Len(PostRequests) = 1
              /\ IsPost(requests[1])
              /\ requests[1].url = BASE_URL \o <<"/presentations/generate">>
    /\ op = "generate_deck" =>
         /\ pc # "deck_post" =>
              /\ Len(PostRequests) = 1
              /\ IsPost(requests[1])
              /\ requests[1].url = BASE_URL \o <<"/presentations/generate-deck">>
         /\ (PollerRunning \/ TotalPolls > 0 \/ Len(requests) > 1) =>
              /\ "generation_id" \in DOMAIN init_response
              /\ steps # <<>> /\ steps[1] = "start"
         /\ 1 + TotalPolls <= Len(requests) \/ TotalPolls = 0
         /\ \A i \in 1..Len(requests) :
              /\ ReadsStatusEndpoint(requests[i]) => i \in 2..(1 + TotalPolls)
              /\ i \in 2..(1 + TotalPolls) =>
                   /\ requests[i].method = "GET"
                   /\ requests[i].url =
                        BASE_URL \o <<"/presentations/">>
                                 \o init_response["generation_id"] \o <<"/status">>

\* A deck generation that was given the second id and has polled twice.
C17_Witness ==
    /\ op = "generate_deck"
    /\ init_response = [generation_id |-> <<"gen_2">>]
    /\ TotalPolls = 2
    /\ Len(requests) = 3
    /\ ReadsStatusEndpoint(requests[3])

\* --------------------------------------------------------------------- C18
\* The answer is a status payload whose status is none of the three terminal
\* strings, compared exactly.
UnknownStatus(resp) ==
    /\ resp.kind = "http" /\ resp.code \notin 400..599
    /\ resp.isJson /\ "status" \in DOMAIN resp.body
    /\ resp.body["status"] \notin {"completed", "partial", "failed"}

\* C18: after a poll answered with a status that is not exactly completed,
\* partial or failed (for instance "Completed" or "error"), the poller has
\* returned nothing: it goes on polling, or it has run out of attempts and
\* timed out; and whatever the poller returns has one of the three statuses.
C18_OnlyExactTerminalReturned ==
    /\ (PollerCalled /\ TotalPolls > 0 /\ UnknownStatus(lastResp)) =>
         /\ result = NoValue
         /\ \/ PollerRunning /\ outcome = Pending
            \/ pc = "done" /\ TimedOut /\ attempt = max_attempts
    /\ (PollerCalled /\ result # NoValue) =>
         result["status"] \in {"completed", "partial", "failed"}
    /\ (op = "poll_until_complete" /\ outcome.kind = "return") =>
         outcome.value["status"] \in {"completed", "partial", "failed"}

\* The second poll was answered "Completed" and the poller sleeps before the third.
C18_Witness ==
    /\ op = "poll_until_complete"
    /\ pc = "poll_sleep"
    /\ attempt = 2
    /\ max_attempts = 3
    /\ lastResp.body = [status |-> "Completed"]
    /\ outcome = Pending

\* --------------------------------------------------------------------- C19
\* The direct call is over and has issued at most max_attempts status requests.
EndedWithinBudget ==
    /\ pc = "done"
    /\ outcome.kind \in {"return", "raise"}
    /\ Len(requests) <= max_attempts

\* The three ways to end that the claim names.
ReturnedTerminal ==
    outcome.kind = "return" /\ outcome.value["status"] \in {"completed", "partial", "failed"}

RequestErrorPropagated ==
    /\ outcome.kind = "raise"
    /\ outcome.exc \in {"HTTPError", "ConnectionError", "JSONDecodeError"}

\* The poller's own lookup status["status"] failed on a payload without status.
StatusKeyMissing ==
    /\ outcome = Raise("KeyError", 0)
    /\ lastResp.isJson /\ "status" \notin DOMAIN lastResp.body

C20_FreshBudgetPerCall ==
    /\ config.API_KEY = <<"replace_with_your_api_key">>
    /\ config.BASE_URL = BASE_URL
    /\ config.HEADERS = HEADERS
    /\ op = "poll_until_complete" =>
         /\ attempt = Len(requests)
         /\ attempt = TotalPolls
         /\ attempt <= max_attempts
         /\ pc = "done" =>
              /\ TimedOut <=> (polls.nonterminal = TotalPolls /\ TotalPolls = max_attempts)
              /\ outcome.kind = "return" <=> polls.terminal = 1
              /\ outcome.kind = "return" => outcome.value = lastResp.body

\* After a call that timed out, a second call used its whole budget of three
\* polls and returned at the third.
C20_Witness ==
    /\ calls = 1
    /\ earlier = [kind |-> "raise", exc |-> "TimeoutError"]
    /\ op = "poll_until_complete"
    /\ pc = "done"
    /\ max_attempts = 3
    /\ Len(requests) = 3
    /\ outcome.kind = "return"

\* --------------------------------------------------------------------- C21
\* The requests generate_deck has issued after its POST and its status polls:
\* the download requests.
DeckDownloadRequests == Len(requests) - (1 + TotalPolls)

\* C21: generate_deck issues at most one download request, and only after the
\* poller returned a terminal payload; when the call is over after a terminal
\* payload (completed, partial or failed), a download request was issued
\* exactly when output_path was given and the payload carries a non-empty
\* download_url; after a Timeout or a failed poll there is no download
\* request and no output file.
C21_DownloadExactlyWhen ==
    (op = "generate_deck" /\ Len(requests) >= 1) =>
        /\ DeckDownloadRequests \in {0, 1}
        /\ DeckDownloadRequests = 1 => (polls.terminal = 1 /\ result # NoValue)
        /\ (pc = "done" /\ polls.terminal = 1) =>
             (DeckDownloadRequests = 1 <=>
                (Truthy(args.output_path) /\ "download_url" \in DOMAIN result
                   /\ Truthy(result["download_url"])))
        /\ (TimedOut \/ polls.error >= 1) =>
             (DeckDownloadRequests = 0 /\ outFile = NoFile)

\* --------------------------------------------------------------------- C22
\* The request carries the credential header.
CarriesApiKey(req) == "XAPIKey" \in DOMAIN req.headers

\* C22: a call of download_file issues one GET and no other request; for an
\* argument that does not start with "http" the GET goes to
\* BASE_URL/presentations/{argument}/download with the X-API-Key header, for
\* one that does it goes to the argument itself without that header; the
\* output file is opened, and its content changed, only after that request
\* was answered without error, so a failed request leaves the file as it was;
\* and no PUT carries the X-API-Key header.
C22_DownloadRouting ==
    /\ [](op = "download_file" =>
            /\ Len(requests) <= 1
            /\ pc \notin {"idle", "dl_request"} => Len(requests) = 1
            /\ Len(requests) = 1 =>
                 /\ requests[1].method = "GET"
                 /\ IF download.url[1] = "http"
                    THEN /\ requests[1].url = download.url
                         /\ ~CarriesApiKey(requests[1])
                    ELSE /\ requests[1].url =
                              BASE_URL \o <<"/presentations/">> \o download.url
                                       \o <<"/download">>
                         /\ CarriesApiKey(requests[1])
                         /\ requests[1].headers["XAPIKey"] = API_KEY
            /\ opened = 1 => (Len(requests) = 1 /\ HttpOk(lastResp))
            /\ (Len(requests) = 1 /\ ~HttpOk(lastResp)) =>
                 (pc = "done" /\ opened = 0 /\ openFiles = {}))
    /\ [](\A i \in 1..Len(requests) :
            requests[i].method = "PUT" => ~CarriesApiKey(requests[i]))
    /\ [][ (op = "download_file" /\ outFile' # outFile) =>
             /\ Len(requests) = 1
             /\ HttpOk(lastResp)
             /\ requests' = requests ]_vars

\* A second call whose direct GET was refused: the file a first call wrote is
\* left as it was.
C22_Witness ==
    /\ calls = 1
    /\ op = "download_file"
    /\ pc = "done"
    /\ download.url[1] = "http"
    /\ Len(requests) = 1
    /\ lastResp.kind = "http" /\ lastResp.code = 404
    /\ outcome = Raise("HTTPError", 404)
    /\ opened = 0
    /\ outFile.exists /\ outFile.data # <<>>

\* --------------------------------------------------------------------- C23
\* Which analysed slide each kind of deck slide is to get: the third for a
\* slide with a table cell whose is_logo is true, else the second for a slide
\* with a text block, else the first.
ExpectedChoice(slide) ==
    CASE slide \in {LogoSlide, LogoTextSlide} -> 3
      [] slide \in {TableTextSlide, OldIdSlide} -> 2
      [] slide \in {TableOnlySlide, StringLogoSlide, ImageLogoSlide, BareSlide} -> 1

\* The id of the n-th analysed slide, or of the first when there is no n-th.
ExpectedId(n, slides_info) ==
    IF n <= Len(slides_info) THEN slides_info[n]["slideId"]
    ELSE slides_info[1]["slideId"]

\* The demo has assigned the ids and is about to issue the generation request.
DemoAssigned == demo \in DemoNames /\ op = "generate_deck" /\ pc = "deck_post"

\* C23: when the demo calls generate_deck, the deck passed has as many slides
\* as the loaded one, each with its other fields unchanged and with exactly
\* the template_slide_id its content calls for (logo before text before
\* table only, the first analysed slide standing in for a missing second or
\* third), which is always an id the analysis returned.
C23_SlideIdAssignment ==
    DemoAssigned =>
        LET info == journal[2].slides_info
            loaded == journal[3].slides
        IN  /\ Len(args.slides) = Len(loaded)
            /\ \A i \in 1..Len(loaded) :
                 /\ "template_slide_id" \in DOMAIN args.slides[i]
                 /\ args.slides[i]["template_slide_id"] =
                      ExpectedId(ExpectedChoice(loaded[i]), info)
                 /\ \E n \in 1..Len(info) :
                      args.slides[i]["template_slide_id"] = info[n]["slideId"]
                 /\ DOMAIN args.slides[i] = DOMAIN loaded[i] \cup {"template_slide_id"}
                 /\ \A k \in DOMAIN loaded[i] \ {"template_slide_id"} :
                      args.slides[i][k] = loaded[i][k]

\* Two analysed slides; a slide with logo cells and a text block got the
\* first slide's id (no third), a slide that came with an id got the second's.
C23_Witness ==
    /\ DemoAssigned
    /\ Len(journal[2].slides_info) = 2
    /\ journal[3].slides = <<LogoTextSlide, OldIdSlide>>
    /\ args.slides[1]["template_slide_id"] = <<"slide_a">>
    /\ args.slides[2]["template_slide_id"] = <<"slide_b">>

\* --------------------------------------------------------------------- C24
\* The upload ended with its confirm POST answered 2xx.
UploadConfirmed(entry) ==
    /\ entry.call = "upload_template"
    /\ entry.last.method = "POST"
    /\ entry.last.url = BASE_URL \o <<"/templates/">> \o entry.template_id
                                 \o <<"/upload/confirm">>
    /\ entry.last.ok

\* The analysis ended with a status GET answered by a terminal payload that
\* holds at least one slide.
AnalysisGaveSlides(entry, template_id) ==
    /\ entry.call = "analyze_template"
    /\ entry.last.method = "GET"
    /\ entry.last.url = BASE_URL \o <<"/templates/">> \o template_id \o <<"/analysis">>
    /\ entry.last.ok
    /\ entry.last.terminal
    /\ Len(entry.slides_info) >= 1

\* A request to the generation endpoint.
IsGenerateDeckRequest(req) ==
    req.url = BASE_URL \o <<"/presentations/generate-deck">>

\* C24: in run_end_to_end_demo the upload runs first, the analysis only after
\* the upload's confirm POST succeeded, and the generation (the assignment of
\* ids, the generate-deck POST, its polls and the download) only after the
\* analysis poll returned a terminal payload with at least one slide; a
\* generate-deck request is issued in no other phase, and the download request
\* only after it; when the analysis payload has no slides the demo has
\* returned None and has issued no request since.
C24_EndToEndOrder ==
    demo = "run_end_to_end_demo" =>
        /\ op = "upload_template" => journal = <<>>
        /\ op = "analyze_template" =>
             (Len(journal) = 1 /\ UploadConfirmed(journal[1]))
        /\ (op = "generate_deck" \/ pc = "demo_assign") =>
             /\ Len(journal) = 3
             /\ UploadConfirmed(journal[1])
             /\ AnalysisGaveSlides(journal[2], journal[1].template_id)
             /\ journal[3].call = "json.load"
        /\ \A i \in 1..Len(requests) :
             IsGenerateDeckRequest(requests[i]) => (op = "generate_deck" /\ i = 1)
        /\ (op = "generate_deck" /\ Len(requests) >= 1) =>
             IsGenerateDeckRequest(requests[1])
        /\ (Len(journal) >= 2 /\ journal[2].slides_info = <<>>) =>
             /\ Len(journal) = 2
             /\ op = demo
             /\ pc = "done"
             /\ outcome = Return(NoValue)
             /\ requests = <<>>

\* The whole demo ran: upload, analysis, generation and download.
C24_Witness ==
    /\ demo = "run_end_to_end_demo"
    /\ op = "generate_deck"
    /\ pc = "done"
    /\ outcome.kind = "return"
    /\ Len(journal) = 3
    /\ steps = <<"start", "poll", "download">>
    /\ outFile.exists

====
